---- MODULE Spec2Model ----
(***************************************************************************)
(* Model of the patch explorer of lazygit-syntax-highlighting:             *)
(*   - pkg/gui/context/patch_explorer_context.go  (PatchExplorerContext)   *)
(*   - the patch presenter (formatPlain / formatView / patchPresenter)     *)
(*   - the filename recovery of the syntax highlighter                     *)
(* Text is modelled as a sequence of one-character strings, styled text as *)
(* a sequence of spans (style + text), a render as a sequence of rows.     *)
(***************************************************************************)
EXTENDS Integers, Sequences, FiniteSets, TLC

VARIABLES
    patch,      \* presenter input: the Patch being formatted
    opts,       \* presenter input: FormatViewOpts
    viewOut,    \* result of formatView(patch, opts)
    plainOut,   \* result of formatPlain(patch)
    state,      \* PatchExplorerContext.state (Nil or a patch_exploring.State)
    isFocused,  \* PatchExplorerContext.isFocused
    view,       \* the gocui view the context writes to
    mutex,      \* PatchExplorerContext.mutex: NoOwner or the owning goroutine
    pc,         \* position of every goroutine inside its handler
    arg,        \* selectedLineIdx argument of every search navigation
    seen,       \* per search navigation: what its own render and FocusSelection read
    last        \* the FocusSelection call of the handler that ran last, if it made one

vars == <<patch, opts, viewOut, plainOut, state, isFocused, view, mutex, pc, arg, seen, last>>

renderVars == <<patch, opts, viewOut, plainOut>>
ctxVars == <<state, isFocused, view>>
procVars == <<mutex, pc, arg, seen>>

(***************************************************************************)
(* Bounds                                                                  *)
(***************************************************************************)
MaxHunks == 2
MaxBody == 2
MaxLines == 3
MaxHeight == 2

Max(a, b) == IF a >= b THEN a ELSE b
Min(a, b) == IF a <= b THEN a ELSE b

(***************************************************************************)
(* Text helpers (strings.HasPrefix, strings.TrimPrefix, strings.Split,     *)
(* filepath.Base) over sequences of characters.                            *)
(***************************************************************************)
HasPrefix(s, p) == Len(s) >= Len(p) /\ SubSeq(s, 1, Len(p)) = p

TrimPrefix(s, p) == IF HasPrefix(s, p) THEN SubSeq(s, Len(p) + 1, Len(s)) ELSE s

RECURSIVE LastField(_, _)
\* the last element of strings.Split(s, sep) for a one-character sep
LastField(s, sep) ==
    IF \E i \in 1..Len(s) : s[i] = sep
    THEN LET i == CHOOSE j \in 1..Len(s) : s[j] = sep /\ \A k \in 1..(j-1) : s[k] # sep
         IN LastField(SubSeq(s, i + 1, Len(s)), sep)
    ELSE s

\* len(strings.Split(s, sep)) for a one-character sep
FieldCount(s, sep) == Cardinality({i \in 1..Len(s) : s[i] = sep}) + 1

RECURSIVE StripTrailingSlashes(_)
StripTrailingSlashes(p) ==
    IF Len(p) > 0 /\ p[Len(p)] = "/" THEN StripTrailingSlashes(SubSeq(p, 1, Len(p) - 1)) ELSE p

\* filepath.Base
Base(path) ==
    IF path = <<>> THEN <<".">>
    ELSE LET p == StripTrailingSlashes(path)
         IN IF p = <<>> THEN <<"/">> ELSE LastField(p, "/")

PlusPrefix == <<"+", "+", "+", " ">>
DiffGitPrefix == <<"d", "i", "f", "f", " ", "-", "-", "g", "i", "t", " ">>
DevNull == <<"/", "d", "e", "v", "/", "n", "u", "l", "l">>
BPrefix == <<"b", "/">>

\* the first loop of ExtractFilenameFromHeader: "+++ " lines, /dev/null skipped
PlusLines(header) ==
    {i \in 1..Len(header) :
        HasPrefix(header[i], PlusPrefix) /\ TrimPrefix(header[i], PlusPrefix) # DevNull}

\* the second loop: "diff --git " lines with at least four fields
DiffGitLines(header) ==
    {i \in 1..Len(header) :
        HasPrefix(header[i], DiffGitPrefix) /\ FieldCount(header[i], " ") >= 4}

First(S) == CHOOSE i \in S : \A j \in S : i <= j

ExtractFilenameFromHeader(header) ==
    IF PlusLines(header) # {}
    THEN Base(TrimPrefix(TrimPrefix(header[First(PlusLines(header))], PlusPrefix), BPrefix))
    ELSE IF DiffGitLines(header) # {}
    THEN Base(TrimPrefix(LastField(header[First(DiffGitLines(header))], " "), BPrefix))
    ELSE <<>>

(***************************************************************************)
(* Styles                                                                  *)
(***************************************************************************)
NoStyle == [fg |-> "raw", bold |-> FALSE, bg |-> "none"]
DefaultTextColor == [fg |-> "default", bold |-> FALSE, bg |-> "none"]
FgCyan == [fg |-> "cyan", bold |-> FALSE, bg |-> "none"]
FgGreen == [fg |-> "green", bold |-> FALSE, bg |-> "none"]
FgRed == [fg |-> "red", bold |-> FALSE, bg |-> "none"]
SetBold(st) == [st EXCEPT !.bold = TRUE]
MergeBgGreen(st) == [st EXCEPT !.bg = "BgGreen"]
Sprint(st, text) == [style |-> st, text |-> text]
Raw(text) == [style |-> NoStyle, text |-> text]

NoDiffBackground == "none"
AdditionBackground == "AdditionBackground"
DeletionBackground == "DeletionBackground"

\* the margin indicator glyph (U+258C in the source) and the placeholder
Glyph == <<"|">>
IndicatorSpan == Sprint(FgCyan, Glyph)
PlaceholderSpan == Raw(<<" ">>)

NoHighlighter == [present |-> FALSE, filename |-> <<>>]
NewSyntaxHighlighter(filename) == [present |-> TRUE, filename |-> filename]

\* the lexer is external: one token with a syntax colour covers the code
HighlightLineWithBackground(h, code, bg) ==
    <<Sprint([fg |-> "syntax", bold |-> FALSE, bg |-> bg], code)>>

(***************************************************************************)
(* Patch model                                                             *)
(***************************************************************************)
ADDITION == "ADDITION"
DELETION == "DELETION"
CONTEXT == "CONTEXT"

\* PatchLine.IsChange
IsChange(line) == line.Kind \in {ADDITION, DELETION}

\* Patch.ContainsChanges: some hunk has an addition or a deletion
ContainsChanges(p) ==
    \E h \in 1..Len(p.hunks) :
        \E l \in 1..Len(p.hunks[h].bodyLines) : IsChange(p.hunks[h].bodyLines[l])

\* Hunk.formatHeaderStart: the "@@ ... @@" marker text
formatHeaderStart(hunk) == hunk.headerStart

(***************************************************************************)
(* patchPresenter                                                          *)
(***************************************************************************)
\* formatPlain's presenter: plain, every other field at its zero value
PlainPresenter(p) ==
    [patch |-> p, plain |-> TRUE, incLineIndices |-> {}, highlighter |-> NoHighlighter,
     selectedStartIdx |-> 0, selectedEndIdx |-> 0, lineSelectMode |-> FALSE, viewWidth |-> 0]

\* formatView's presenter
ViewPresenter(p, o) ==
    LET filename == ExtractFilenameFromHeader(p.header)
    IN [patch |-> p, plain |-> FALSE, incLineIndices |-> o.IncLineIndices,
        highlighter |-> IF filename # <<>> THEN NewSyntaxHighlighter(filename)
                        ELSE NoHighlighter,
        selectedStartIdx |-> o.SelectedStartIdx, selectedEndIdx |-> o.SelectedEndIdx,
        lineSelectMode |-> o.LineSelectMode, viewWidth |-> o.ViewWidth]

isLineSelected_halfOpen(self, lineIdx) ==
    IF self.selectedStartIdx < 0 \/ self.selectedEndIdx < 0 THEN FALSE
    ELSE lineIdx >= self.selectedStartIdx /\ lineIdx < self.selectedEndIdx

isLineSelected(self, lineIdx) ==
    IF self.selectedStartIdx < 0 \/ self.selectedEndIdx < 0 THEN FALSE
    ELSE lineIdx >= self.selectedStartIdx /\ lineIdx <= self.selectedEndIdx

selectionIndicator_ignoresMode(self, lineIdx) ==
    IF self.plain THEN <<>>
    ELSE IF isLineSelected(self, lineIdx) THEN <<IndicatorSpan>>
    ELSE <<PlaceholderSpan>>

selectionIndicator(self, lineIdx) ==
    IF self.plain THEN <<>>
    ELSE IF self.lineSelectMode THEN <<>>
    ELSE IF isLineSelected(self, lineIdx) THEN <<IndicatorSpan>>
    ELSE <<PlaceholderSpan>>

patchLineStyle(line) ==
    CASE line.Kind = ADDITION -> FgGreen
      [] line.Kind = DELETION -> FgRed
      [] OTHER -> DefaultTextColor

\* padToWidth is disabled in the source: the line is returned as it is
padToWidth(self, line, bg) == line

formatLineWithKind(self, str, textStyle, included, lineKind, lineIdx) ==
    IF self.plain THEN <<Raw(str)>>
    ELSE LET firstCharStyle == IF included THEN MergeBgGreen(textStyle) ELSE textStyle
             codeContent == SubSeq(str, 2, Len(str))
             bg == IF Len(str) < 2 THEN NoDiffBackground
                   ELSE CASE lineKind = ADDITION -> AdditionBackground
                          [] lineKind = DELETION -> DeletionBackground
                          [] OTHER -> NoDiffBackground
             result ==
                 IF Len(str) < 2 THEN <<Sprint(firstCharStyle, str)>>
                 ELSE IF self.highlighter.present /\ codeContent # <<>>
                 THEN <<Sprint(firstCharStyle, SubSeq(str, 1, 1))>>
                      \o HighlightLineWithBackground(self.highlighter, codeContent, bg)
                 ELSE <<Sprint(firstCharStyle, SubSeq(str, 1, 1)),
                        Sprint(textStyle, codeContent)>>
         IN padToWidth(self, result, bg)

formatLine(self, str, textStyle, index, lineKind) ==
    formatLineWithKind(self, str, textStyle, index \in self.incLineIndices, lineKind, index)

formatLineAux(self, str, textStyle, included, lineIdx) ==
    formatLineWithKind(self, str, textStyle, included, CONTEXT, lineIdx)

\* the rows format() walks through, in order: header lines, then per hunk its
\* header row and its body lines
HeaderRows(p) ==
    [i \in 1..Len(p.header) |->
        [part |-> "header", text |-> p.header[i], context |-> <<>>, kind |-> CONTEXT]]

HunkRows(hunk) ==
    <<[part |-> "hunkHeader", text |-> formatHeaderStart(hunk),
       context |-> hunk.headerContext, kind |-> CONTEXT]>>
    \o [i \in 1..Len(hunk.bodyLines) |->
        [part |-> "body", text |-> hunk.bodyLines[i].Content, context |-> <<>>,
         kind |-> hunk.bodyLines[i].Kind]]

RECURSIVE AllHunkRows(_)
AllHunkRows(hunks) ==
    IF hunks = <<>> THEN <<>> ELSE HunkRows(Head(hunks)) \o AllHunkRows(Tail(hunks))

PatchRows(p) == HeaderRows(p) \o AllHunkRows(p.hunks)

\* the text handed to appendLine for one row
RowText(self, row, lineIdx) ==
    CASE row.part = "header" ->
            formatLineAux(self, row.text, SetBold(DefaultTextColor), FALSE, lineIdx)
      [] row.part = "hunkHeader" ->
            formatLineAux(self, row.text, FgCyan, FALSE, lineIdx)
            \o formatLineAux(self, row.context, DefaultTextColor, FALSE, lineIdx)
      [] OTHER ->
            LET line == [Content |-> row.text, Kind |-> row.kind]
            IN IF IsChange(line)
               THEN formatLine(self, row.text, patchLineStyle(line), lineIdx, row.kind)
               ELSE formatLineWithKind(self, row.text, patchLineStyle(line), FALSE,
                                       row.kind, lineIdx)

\* appendLine: indicator + line + "\n" (the newline is the row boundary)
appendLine(self, line, lineIdx) == selectionIndicator(self, lineIdx) \o line

format_noEmptyCheck(self) ==
    LET rows == PatchRows(self.patch)
    IN [k \in 1..Len(rows) |-> appendLine(self, RowText(self, rows[k], k - 1), k - 1)]

format(self) ==
    IF ~ContainsChanges(self.patch) THEN <<>>
    ELSE LET rows == PatchRows(self.patch)
         IN [k \in 1..Len(rows) |-> appendLine(self, RowText(self, rows[k], k - 1), k - 1)]

formatPlain(p) == format(PlainPresenter(p))

formatView(p, o) == format(ViewPresenter(p, o))

(***************************************************************************)
(* Inputs of the presenter                                                 *)
(***************************************************************************)
DiffGitLine ==
    DiffGitPrefix \o <<"a", "/", "x", ".", "g", "o", " ", "b", "/", "x", ".", "g", "o">>
PlusGoLine == PlusPrefix \o <<"b", "/", "x", ".", "g", "o">>
PlusDevNullLine == PlusPrefix \o DevNull

Headers ==
    { <<PlusDevNullLine>>, <<DiffGitLine, PlusGoLine>>, <<DiffGitLine, PlusDevNullLine>> }

PatchLines ==
    { [Content |-> <<"+", "a">>, Kind |-> ADDITION],
      [Content |-> <<"-", "r">>, Kind |-> DELETION],
      [Content |-> <<" ", "c">>, Kind |-> CONTEXT],
      [Content |-> <<"+">>, Kind |-> ADDITION] }

Bodies == UNION {[1..n -> PatchLines] : n \in 1..MaxBody}

Hunks ==
    { [headerStart |-> <<"@", "@">>, headerContext |-> <<" ", "f">>, bodyLines |-> b] :
        b \in Bodies }

RECURSIVE BodyTotal(_)
BodyTotal(hunks) ==
    IF hunks = <<>> THEN 0 ELSE Len(Head(hunks).bodyLines) + BodyTotal(Tail(hunks))

HunkLists ==
    {hs \in UNION {[1..n -> Hunks] : n \in 0..MaxHunks} : BodyTotal(hs) <= MaxBody}

Patches == {[header |-> h, hunks |-> hs] : h \in Headers, hs \in HunkLists}

\* selection ranges of the data model: none (-1, -1), or 0 <= start <= end < total
Ranges(total) ==
    {<<0 - 1, 0 - 1>>} \cup {r \in (0..(total - 1)) \X (0..(total - 1)) : r[1] <= r[2]}

IncChoices == {{}, {2, 3}}

OptsFor(p) ==
    {[IncLineIndices |-> inc, SelectedStartIdx |-> r[1], SelectedEndIdx |-> r[2],
      LineSelectMode |-> m, ViewWidth |-> 80] :
        inc \in IncChoices, r \in Ranges(Len(PatchRows(p))), m \in BOOLEAN}

NotRendered == [rendered |-> FALSE, text |-> <<>>]
Rendered(text) == [rendered |-> TRUE, text |-> text]

(***************************************************************************)
(* The explorer: values                                                    *)
(***************************************************************************)
LINE == "LINE"
HUNK_OR_RANGE == "HUNK_OR_RANGE"

Procs == {"search1", "search2", "layout"}
NoOwner == "none"

NilState == [attached |-> FALSE, mode |-> LINE, startIdx |-> 0, endIdx |-> 0, numLines |-> 0]

NoContent ==
    [empty |-> TRUE, focused |-> FALSE, mode |-> LINE, startIdx |-> 0, endIdx |-> 0,
     numLines |-> 0]

InitView ==
    [Highlight |-> FALSE, originY |-> 0, innerHeight |-> 1, content |-> NoContent]

NotSeen == [rendered |-> FALSE, focusedSel |-> FALSE, content |-> NoContent,
            startIdx |-> 0, endIdx |-> 0]

NoCall == [called |-> FALSE, origin |-> 0, bufferHeight |-> 0, numLines |-> 0,
           startIdx |-> 0, endIdx |-> 0, result |-> 0, rangeSelectStart |-> 0, cursorY |-> 0]

ExplorerIdle ==
    /\ state = NilState
    /\ isFocused = FALSE
    /\ view = InitView
    /\ mutex = NoOwner
    /\ pc = [p \in Procs |-> "idle"]
    /\ arg = [p \in Procs |-> 0]
    /\ seen = [p \in Procs |-> NotSeen]
    /\ last = NoCall

(***************************************************************************)
(* Specification of the presenter: formatView and formatPlain applied to   *)
(* every patch and every option record of the bounded input sets.          *)
(***************************************************************************)
RenderInit ==
    /\ patch \in Patches
    /\ opts \in OptsFor(patch)
    /\ viewOut = NotRendered
    /\ plainOut = NotRendered
    /\ ExplorerIdle

DoFormatView ==
    /\ ~viewOut.rendered
    /\ viewOut' = Rendered(formatView(patch, opts))
    /\ UNCHANGED <<patch, opts, plainOut, ctxVars, procVars, last>>

DoFormatPlain ==
    /\ viewOut.rendered
    /\ ~plainOut.rendered
    /\ plainOut' = Rendered(formatPlain(patch))
    /\ UNCHANGED <<patch, opts, viewOut, ctxVars, procVars, last>>

RenderNext == DoFormatView \/ DoFormatPlain

RenderSpec == RenderInit /\ [][RenderNext]_vars

(***************************************************************************)
(* Properties of the presenter (checked under RenderSpec)                  *)
(***************************************************************************)
RowHasGlyph(row) == Len(row) >= 1 /\ row[1] = IndicatorSpan
RowHasPlaceholder(row) == Len(row) >= 1 /\ row[1] = PlaceholderSpan

InSelectedInterval(idx) == opts.SelectedStartIdx <= idx /\ idx <= opts.SelectedEndIdx

HasChangeLine(p) ==
    \E h \in 1..Len(p.hunks) : \E l \in 1..Len(p.hunks[h].bodyLines) :
        p.hunks[h].bodyLines[l].Kind # CONTEXT

StyledWithChanges == viewOut.rendered /\ HasChangeLine(patch)

\* C4: in a styled render of a patch with changes there is one row per
\* flattened line; row i carries the indicator glyph iff the mode is
\* HUNK_OR_RANGE and i lies in [selectedStartIdx, selectedEndIdx]; in
\* HUNK_OR_RANGE mode every other row starts with the placeholder; in LINE
\* mode no row carries the glyph.
C4_IndicatorIffInRange ==
    StyledWithChanges =>
        /\ Len(viewOut.text) = Len(PatchRows(patch))
        /\ \A k \in 1..Len(viewOut.text) :
            /\ RowHasGlyph(viewOut.text[k])
                   <=> (~opts.LineSelectMode /\ InSelectedInterval(k - 1))
            /\ (~opts.LineSelectMode /\ ~InSelectedInterval(k - 1))
                   => RowHasPlaceholder(viewOut.text[k])

C4_Witness ==
    /\ StyledWithChanges
    /\ ~opts.LineSelectMode
    /\ opts.SelectedStartIdx < opts.SelectedEndIdx
    /\ \E k \in 1..Len(viewOut.text) : RowHasGlyph(viewOut.text[k])
    /\ \E k \in 1..Len(viewOut.text) : RowHasPlaceholder(viewOut.text[k])

\* C5 as stated: no row produced from patch.header is prefixed with the
\* indicator glyph, for any mode and any selection range.
C5_HeaderNeverIndicated ==
    viewOut.rendered =>
        \A k \in 1..Min(Len(patch.header), Len(viewOut.text)) : ~RowHasGlyph(viewOut.text[k])

\* C5 amended: a row produced from patch.header is prefixed with the
\* indicator glyph only when the mode is HUNK_OR_RANGE and the selected range
\* covers that row's index; its first character is bold default foreground
\* and no part of it has the included background.
C5_HeaderIndicatedOnlyInRange ==
    StyledWithChanges =>
        \A k \in 1..Len(patch.header) :
            LET row == viewOut.text[k]
            IN /\ RowHasGlyph(row) => (~opts.LineSelectMode /\ InSelectedInterval(k - 1))
               /\ row[Len(row) - 1]
                      = Sprint(SetBold(DefaultTextColor), SubSeq(patch.header[k], 1, 1))
               /\ \A j \in 1..Len(row) : row[j].style.bg = "none"

C5_Witness ==
    /\ StyledWithChanges
    /\ ~opts.LineSelectMode
    /\ Len(patch.header) = 2
    /\ opts.SelectedStartIdx = 1
    /\ opts.SelectedEndIdx >= Len(patch.header)
    /\ ~RowHasGlyph(viewOut.text[1])
    /\ RowHasGlyph(viewOut.text[2])

DiffBackgroundOf(kind) ==
    IF kind = ADDITION THEN AdditionBackground
    ELSE IF kind = DELETION THEN DeletionBackground
    ELSE NoDiffBackground

\* C6 as stated: without a highlighter, the remainder (the text after the
\* first character) of every ADDITION and DELETION body line of length >= 2
\* is rendered with its diff background.
C6_RemainderKeepsDiffBackground ==
    (StyledWithChanges /\ ExtractFilenameFromHeader(patch.header) = <<>>) =>
        \A k \in 1..Len(viewOut.text) :
            LET line == PatchRows(patch)[k]
                row == viewOut.text[k]
            IN (line.part = "body" /\ line.kind # CONTEXT /\ Len(line.text) >= 2) =>
                  /\ row[Len(row)].text = SubSeq(line.text, 2, Len(line.text))
                  /\ row[Len(row)].style.bg = DiffBackgroundOf(line.kind)

\* C7: a patch with no ADDITION and no DELETION line renders to the empty
\* string, both plain and styled.
C7_NoChangesRendersEmpty ==
    ~HasChangeLine(patch) =>
        /\ viewOut.rendered => viewOut.text = <<>>
        /\ plainOut.rendered => plainOut.text = <<>>

C7_Witness ==
    /\ viewOut.rendered
    /\ plainOut.rendered
    /\ ~HasChangeLine(patch)
    /\ Len(patch.hunks) = 2
    /\ Len(patch.header) = 2
    /\ ~opts.LineSelectMode
    /\ opts.SelectedStartIdx = 0

(***************************************************************************)
(* patch_exploring.State (selection state machine and viewport calculator) *)
(***************************************************************************)
SelectingLine(s) == s.mode = LINE

SetLineSelectMode(s) == [s EXCEPT !.mode = LINE]

\* SelectLine writes the two ends of the range one after the other
SelectLineStart(s, index) == [s EXCEPT !.startIdx = index]
SelectLineEnd(s, index) == [s EXCEPT !.endIdx = index]
SelectLine(s, index) == SelectLineEnd(SelectLineStart(s, index), index)

SelectedViewRange(s) == <<s.startIdx, s.endIdx>>

Clamp(x, lo, hi) == Max(lo, Min(x, hi))

\* minimal scroll: unchanged when the selection is visible, otherwise up to
\* reveal startIdx or down to reveal endIdx; the result is always clamped
CalculateOrigin(s, currentOrigin, bufferHeight, totalLines) ==
    LET visible == s.startIdx >= currentOrigin /\ s.endIdx < currentOrigin + bufferHeight
        moved == IF visible THEN currentOrigin
                 ELSE IF s.startIdx < currentOrigin THEN s.startIdx
                 ELSE s.endIdx - bufferHeight + 1
    IN Clamp(moved, 0, Max(0, totalLines - bufferHeight))

\* State.RenderForLineIndices: the render reads the mode and the range
RenderForLineIndices(s, focused, viewWidth) ==
    [empty |-> FALSE, focused |-> focused, mode |-> s.mode, startIdx |-> s.startIdx,
     endIdx |-> s.endIdx, numLines |-> s.numLines]

\* State.OnViewWidthChanged: re-wraps for the view; the selection stays
StateOnViewWidthChanged(s, v) == s

\* the states the host attaches: LINE selects one line, HUNK_OR_RANGE a range
States ==
    {[attached |-> TRUE, mode |-> m, startIdx |-> r[1], endIdx |-> r[2], numLines |-> n] :
        m \in {LINE, HUNK_OR_RANGE}, n \in 1..MaxLines,
        r \in {q \in (0..(MaxLines - 1)) \X (0..(MaxLines - 1)) : q[1] <= q[2]}}

ValidStates ==
    {s \in States : s.endIdx < s.numLines /\ (s.mode = LINE => s.startIdx = s.endIdx)}

(***************************************************************************)
(* gocui.View                                                              *)
(***************************************************************************)
ViewLinesHeight(v) == v.content.numLines
InnerHeight(v) == v.innerHeight
InnerWidth(v) == 80

(***************************************************************************)
(* PatchExplorerContext: every method maps a context (state, isFocused,    *)
(* view) to the context it leaves behind.                                  *)
(***************************************************************************)
Ctx == [state |-> state, isFocused |-> isFocused, view |-> view]

SetCtx(c) ==
    /\ state' = c.state
    /\ isFocused' = c.isFocused
    /\ view' = c.view

updateHighlight(c) ==
    IF ~c.state.attached THEN [c EXCEPT !.view.Highlight = FALSE]
    ELSE [c EXCEPT !.view.Highlight = c.isFocused /\ SelectingLine(c.state)]

\* SimpleContext.HandleFocus with HighlightOnFocus
SimpleHandleFocus(c) == [c EXCEPT !.view.Highlight = TRUE]

\* SimpleContext.HandleFocusLost
SimpleHandleFocusLost(c) == [c EXCEPT !.view.Highlight = FALSE]

HandleFocus(c) == updateHighlight(SimpleHandleFocus([c EXCEPT !.isFocused = TRUE]))

HandleFocusLost(c) ==
    SimpleHandleFocusLost([c EXCEPT !.isFocused = FALSE, !.view.Highlight = FALSE])

SetState(c, s) == [c EXCEPT !.state = s]

\* GetContentToRender: the context it leaves (Highlight updated) ...
GetContentToRenderCtx(c) == IF ~c.state.attached THEN c ELSE updateHighlight(c)

\* ... and the content it returns
GetContentToRender(c) ==
    IF ~c.state.attached THEN NoContent
    ELSE RenderForLineIndices(c.state, c.isFocused, InnerWidth(c.view))

setContent(c) == [GetContentToRenderCtx(c) EXCEPT !.view.content = GetContentToRender(c)]

FocusSelection_originAtSelection(c) ==
    LET newOriginY == SelectedViewRange(c.state)[1]
    IN [c EXCEPT !.view.originY = newOriginY]

FocusSelection_fromTop(c) ==
    LET newOriginY == CalculateOrigin(c.state, 0, InnerHeight(c.view),
                                      ViewLinesHeight(c.view))
    IN [c EXCEPT !.view.originY = newOriginY]

\* the view fields the context reads back are kept in the view; the cursor
\* row and the range-select start it also sets are recorded by FocusCall
FocusSelection(c) ==
    LET newOriginY == CalculateOrigin(c.state, c.view.originY, InnerHeight(c.view),
                                      ViewLinesHeight(c.view))
    IN [c EXCEPT !.view.originY = newOriginY]

Render(c) == setContent(c)

RenderAndFocus(c) == FocusSelection(setContent(c))

NavigateTo(c, selectedLineIdx) ==
    RenderAndFocus([c EXCEPT !.state = SelectLine(SetLineSelectMode(c.state), selectedLineIdx)])

OnViewWidthChanged(c) ==
    IF c.state.attached
    THEN RenderAndFocus(setContent([c EXCEPT !.state = StateOnViewWidthChanged(c.state, c.view)]))
    ELSE c

\* what the FocusSelection of a handler read and the origin it handed to
\* SetOriginY (nothing else in a handler moves the origin, so the origin it
\* read is the one the handler started with)
FocusCall(before, after) ==
    [called |-> TRUE, origin |-> before.view.originY,
     bufferHeight |-> InnerHeight(after.view), numLines |-> ViewLinesHeight(after.view),
     startIdx |-> SelectedViewRange(after.state)[1],
     endIdx |-> SelectedViewRange(after.state)[2],
     result |-> after.view.originY,
     rangeSelectStart |-> SelectedViewRange(after.state)[1],
     cursorY |-> SelectedViewRange(after.state)[2] - after.view.originY]

(***************************************************************************)
(* Spec: the handlers of one explorer, run one at a time by the host's     *)
(* event loop.                                                             *)
(***************************************************************************)
Init ==
    /\ patch = [header |-> <<>>, hunks |-> <<>>]
    /\ opts = [IncLineIndices |-> {}, SelectedStartIdx |-> 0 - 1, SelectedEndIdx |-> 0 - 1,
               LineSelectMode |-> TRUE, ViewWidth |-> 80]
    /\ viewOut = NotRendered
    /\ plainOut = NotRendered
    /\ ExplorerIdle

DoHandleFocus ==
    /\ SetCtx(HandleFocus(Ctx))
    /\ last' = NoCall
    /\ UNCHANGED <<renderVars, procVars>>

DoHandleFocusLost ==
    /\ SetCtx(HandleFocusLost(Ctx))
    /\ last' = NoCall
    /\ UNCHANGED <<renderVars, procVars>>

DoSetState ==
    \E s \in ValidStates \cup {NilState} :
        /\ SetCtx(SetState(Ctx, s))
        /\ last' = NoCall
        /\ UNCHANGED <<renderVars, procVars>>

DoRender ==
    /\ SetCtx(Render(Ctx))
    /\ last' = NoCall
    /\ UNCHANGED <<renderVars, procVars>>

\* the search on-select handler: Lock, NavigateTo, Unlock
DoNavigateTo ==
    \E i \in 0..(state.numLines - 1) :
        /\ state.attached
        /\ mutex = NoOwner
        /\ SetCtx(NavigateTo(Ctx, i))
        /\ last' = FocusCall(Ctx, NavigateTo(Ctx, i))
        /\ UNCHANGED <<renderVars, procVars>>

DoOnViewWidthChanged ==
    /\ SetCtx(OnViewWidthChanged(Ctx))
    /\ last' = IF state.attached THEN FocusCall(Ctx, OnViewWidthChanged(Ctx)) ELSE NoCall
    /\ UNCHANGED <<renderVars, procVars>>

\* the host's layout gives the view a new height
ViewResized ==
    \E h \in 1..MaxHeight :
        /\ view' = [view EXCEPT !.innerHeight = h]
        /\ last' = NoCall
        /\ UNCHANGED <<renderVars, state, isFocused, procVars>>

Next ==
    \/ DoHandleFocus
    \/ DoHandleFocusLost
    \/ DoSetState
    \/ DoRender
    \/ DoNavigateTo
    \/ DoOnViewWidthChanged
    \/ ViewResized

Spec == Init /\ [][Next]_vars

(***************************************************************************)
(* Properties of the handlers (checked under Spec)                         *)
(***************************************************************************)
\* C2 as stated: after any sequence of handlers the view's Highlight flag is
\* true iff a state is attached, the explorer is focused and the state is in
\* LINE mode.
C2_HighlightIffFocusedLine ==
    view.Highlight <=> (state.attached /\ isFocused /\ state.mode = LINE)

SelectionVisible(call) ==
    /\ call.startIdx >= call.origin
    /\ call.endIdx < call.origin + call.bufferHeight

MaxOrigin(call) == Max(0, call.numLines - call.bufferHeight)

Searchers == {"search1", "search2"}
Layout == "layout"

ConcInit ==
    /\ patch = [header |-> <<>>, hunks |-> <<>>]
    /\ opts = [IncLineIndices |-> {}, SelectedStartIdx |-> 0 - 1, SelectedEndIdx |-> 0 - 1,
               LineSelectMode |-> TRUE, ViewWidth |-> 80]
    /\ viewOut = NotRendered
    /\ plainOut = NotRendered
    /\ state \in ValidStates
    /\ isFocused = TRUE
    /\ view = InitView
    /\ mutex = NoOwner
    /\ pc = [p \in Procs |-> "idle"]
    /\ arg = [p \in Procs |-> 0]
    /\ seen = [p \in Procs |-> NotSeen]
    /\ last = NoCall

Goto(p, label) == pc' = [pc EXCEPT ![p] = label]

\* the view's search hands a selected line index to the on-select handler
SearchSelect(p) ==
    \E i \in 0..(state.numLines - 1) :
        /\ pc[p] = "idle"
        /\ arg' = [arg EXCEPT ![p] = i]
        /\ seen' = [seen EXCEPT ![p] = NotSeen]
        /\ Goto(p, "lock")
        /\ UNCHANGED <<renderVars, ctxVars, mutex, last>>

Lock_noWait(p) ==
    /\ pc[p] = "lock"
    /\ mutex' = p
    /\ Goto(p, "setLineSelectMode")
    /\ UNCHANGED <<renderVars, ctxVars, arg, seen, last>>

\* ctx.GetMutex().Lock()
Lock(p) ==
    /\ pc[p] = "lock"
    /\ mutex = NoOwner
    /\ mutex' = p
    /\ Goto(p, "setLineSelectMode")
    /\ UNCHANGED <<renderVars, ctxVars, arg, seen, last>>

NavSetLineSelectMode_skipped(p) ==
    /\ pc[p] = "setLineSelectMode"
    /\ Goto(p, "selectLineStart")
    /\ UNCHANGED <<renderVars, ctxVars, mutex, arg, seen, last>>

\* NavigateTo: self.GetState().SetLineSelectMode()
NavSetLineSelectMode(p) ==
    /\ pc[p] = "setLineSelectMode"
    /\ state' = SetLineSelectMode(state)
    /\ Goto(p, "selectLineStart")
    /\ UNCHANGED <<renderVars, isFocused, view, mutex, arg, seen, last>>

\* NavigateTo: self.GetState().SelectLine(selectedLineIdx), first write
NavSelectLineStart(p) ==
    /\ pc[p] = "selectLineStart"
    /\ state' = SelectLineStart(state, arg[p])
    /\ Goto(p, "selectLineEnd")
    /\ UNCHANGED <<renderVars, isFocused, view, mutex, arg, seen, last>>

\* NavigateTo: self.GetState().SelectLine(selectedLineIdx), second write
NavSelectLineEnd(p) ==
    /\ pc[p] = "selectLineEnd"
    /\ state' = SelectLineEnd(state, arg[p])
    /\ Goto(p, "setContent")
    /\ UNCHANGED <<renderVars, isFocused, view, mutex, arg, seen, last>>

\* RenderAndFocus: self.setContent()
NavSetContent(p) ==
    /\ pc[p] = "setContent"
    /\ SetCtx(setContent(Ctx))
    /\ seen' = [seen EXCEPT ![p].rendered = TRUE, ![p].content = GetContentToRender(Ctx)]
    /\ Goto(p, "focusSelection")
    /\ UNCHANGED <<renderVars, mutex, arg, last>>

\* RenderAndFocus: self.FocusSelection(); self.c.Render()
NavFocusSelection(p) ==
    /\ pc[p] = "focusSelection"
    /\ SetCtx(FocusSelection(Ctx))
    /\ seen' = [seen EXCEPT ![p].focusedSel = TRUE,
                            ![p].startIdx = SelectedViewRange(state)[1],
                            ![p].endIdx = SelectedViewRange(state)[2]]
    /\ Goto(p, "unlock")
    /\ UNCHANGED <<renderVars, mutex, arg, last>>

\* defer ctx.GetMutex().Unlock(); return nil
Unlock(p) ==
    /\ pc[p] = "unlock"
    /\ mutex' = NoOwner
    /\ Goto(p, "idle")
    /\ UNCHANGED <<renderVars, ctxVars, arg, seen, last>>

\* OnViewWidthChanged, called by the host after it resized the view:
\* state.OnViewWidthChanged(view); it takes no lock
LayoutStart ==
    \E h \in 1..MaxHeight :
        /\ pc[Layout] = "idle"
        /\ state.attached
        /\ state' = StateOnViewWidthChanged(state, view)
        /\ view' = [view EXCEPT !.innerHeight = h]
        /\ Goto(Layout, "setContent")
        /\ UNCHANGED <<renderVars, isFocused, mutex, arg, seen, last>>

\* OnViewWidthChanged: self.setContent()
LayoutSetContent ==
    /\ pc[Layout] = "setContent"
    /\ SetCtx(setContent(Ctx))
    /\ Goto(Layout, "renderAndFocus")
    /\ UNCHANGED <<renderVars, mutex, arg, seen, last>>

\* OnViewWidthChanged: RenderAndFocus: self.setContent()
LayoutRenderAndFocus ==
    /\ pc[Layout] = "renderAndFocus"
    /\ SetCtx(setContent(Ctx))
    /\ Goto(Layout, "focusSelection")
    /\ UNCHANGED <<renderVars, mutex, arg, seen, last>>

\* OnViewWidthChanged: RenderAndFocus: self.FocusSelection(); self.c.Render()
LayoutFocusSelection ==
    /\ pc[Layout] = "focusSelection"
    /\ SetCtx(FocusSelection(Ctx))
    /\ Goto(Layout, "idle")
    /\ UNCHANGED <<renderVars, mutex, arg, seen, last>>

ConcNext ==
    \/ \E p \in Searchers : SearchSelect(p)
    \/ \E p \in Searchers : Lock(p)
    \/ \E p \in Searchers : NavSetLineSelectMode(p)
    \/ \E p \in Searchers : NavSelectLineStart(p)
    \/ \E p \in Searchers : NavSelectLineEnd(p)
    \/ \E p \in Searchers : NavSetContent(p)
    \/ \E p \in Searchers : NavFocusSelection(p)
    \/ \E p \in Searchers : Unlock(p)
    \/ LayoutStart
    \/ LayoutSetContent
    \/ LayoutRenderAndFocus
    \/ LayoutFocusSelection

ConcSpec == ConcInit /\ [][ConcNext]_vars

(***************************************************************************)
(* Properties of the goroutines (checked under ConcSpec)                   *)
(***************************************************************************)
\* C1: what a search navigation renders and what its FocusSelection reads is
\* the range startIdx = endIdx = index that this same navigation wrote, never
\* a start or an end written by the other navigation.
C1_NavigationReadsOwnSelection ==
    \A p \in Searchers :
        /\ seen[p].rendered =>
              /\ ~seen[p].content.empty
              /\ seen[p].content.startIdx = arg[p]
              /\ seen[p].content.endIdx = arg[p]
        /\ seen[p].focusedSel =>
              /\ seen[p].startIdx = arg[p]
              /\ seen[p].endIdx = arg[p]

C1_Witness ==
    /\ pc["search1"] = "unlock"
    /\ seen["search1"].rendered
    /\ seen["search1"].focusedSel
    /\ pc["search2"] = "lock"
    /\ arg["search1"] # arg["search2"]

\* C3: inside a search navigation the mode is LINE before SelectLine moves
\* the selection, the mode is LINE and startIdx = endIdx = i before the
\* render and before FocusSelection, and when NavigateTo returns the mode is
\* LINE, startIdx = endIdx = i, and the render has shown that selection.
C3_NavigateForcesLineFirst ==
    \A p \in Searchers :
        /\ pc[p] \in {"selectLineStart", "selectLineEnd"} => state.mode = LINE
        /\ pc[p] \in {"setContent", "focusSelection", "unlock"} =>
              /\ state.mode = LINE
              /\ state.startIdx = arg[p]
              /\ state.endIdx = arg[p]
        /\ pc[p] \in {"focusSelection", "unlock"} =>
              /\ seen[p].rendered
              /\ seen[p].content.mode = LINE
        /\ pc[p] = "unlock" => seen[p].focusedSel

C3_Witness ==
    /\ pc["search1"] = "selectLineStart"
    /\ state.mode = LINE
    /\ state.startIdx < state.endIdx
    /\ arg["search1"] = state.endIdx

\* C10 as stated: every setContent and FocusSelection of a handler runs
\* while that handler holds the mutex, and no handler asks for the mutex
\* while holding it.
C10_RenderHoldsMutex ==
    \A p \in Procs :
        /\ pc[p] \in {"setContent", "renderAndFocus", "focusSelection"} => mutex = p
        /\ pc[p] = "lock" => mutex # p

====
